---- MODULE Spec2Model ----
(***************************************************************************)
(* A model of the Cumulus message adapter (src/message/message.py) and of  *)
(* its process boundary (src/__main__.py, and the __main__ block of        *)
(* message.py).                                                            *)
(*                                                                         *)
(* Every method of class `message` is a pure function of its arguments     *)
(* (plus the two external collaborators), so each is an operator that      *)
(* computes an Outcome: the value returned, or the exception raised.  One  *)
(* action per method applies it to inputs drawn from small sets, the way a *)
(* caller holding an instance would; the process boundary is a sequence of *)
(* steps over pc.  One behaviour is one invocation: nothing is retained    *)
(* between invocations.                                                    *)
(*                                                                         *)
(* Python values: a str is a TLA+ string where only equality matters and a *)
(* sequence of one-character strings where the code slices or matches it;  *)
(* JSON values that share a slot with values of another type carry a tag   *)
(* t.  None is the tagged value [t |-> "none"], or the string None_ in a   *)
(* slot that otherwise holds strings.                                      *)
(***************************************************************************)
EXTENDS Integers, Sequences, FiniteSets, TLC

VARIABLES
    pc,        \* position of the invocation: "init", a boundary step, or "done"
    call,      \* the method applied and its arguments
    res,       \* Outcome of the method applied
    stdout,    \* sequence of texts written to standard output
    stderr,    \* sequence of texts written to standard error
    exitCode,  \* the boundary's exitCode variable, -1 before it is bound
    status,    \* exit status of the process, -1 while it has not exited
    s3         \* objects put to the object store by this invocation

vars == <<pc, call, res, stdout, stderr, exitCode, status, s3>>

-----------------------------------------------------------------------------
(* Outcomes and Python's exception classes                                 *)

Ret(v) == [kind |-> "return", val |-> v]
Raise(cls, msg) == [kind |-> "raise", cls |-> cls, msg |-> msg]

Returned(o) == o.kind = "return"
Raised(o) == o.kind = "raise"

\* The classes `except LookupError` catches: LookupError and its subclasses.
LookupErrorClasses == {"LookupError", "KeyError", "IndexError"}
IsLookupError(o) == Raised(o) /\ o.cls \in LookupErrorClasses

\* None in a slot that otherwise holds a str.
None_ == "<None>"
NoneV == [t |-> "none"]

\* The names bound at module level of message.py: its imports and the class.
\* A method body that calls a sibling method without `self.` looks the
\* (name-mangled) name up here.
ModuleGlobals ==
    {"json", "re", "sys", "datetime", "date", "time", "uuid", "boto3",
     "jsonpath", "parse", "message"}

\* Evaluating a bare name: NameError unless it is bound, else the value.
Global(name, value) ==
    IF name \in ModuleGlobals THEN value ELSE Raise("NameError", <<name>>)

-----------------------------------------------------------------------------
(* __getTaskNameFromExecutionHistory                                       *)

MaxEvents == 3

TaskNames == {"Validate", "Discover"}
Arns == {"X", "Y"}
\* One history event, as the fields the code reads: id, type,
\* previousEventId, <kind>ScheduledEventDetails.resource,
\* stateEnteredEventDetails.name.  back = id - previousEventId: a scheduled
\* event refers to the event just before it, or past one event of another
\* branch.
EventShapes ==
    [type : {"TaskStateEntered"}, back : {1}, resource : {""},
     name : TaskNames]
    \cup [type : {"LambdaFunctionScheduled", "ActivityScheduled"},
          back : {1, 2}, resource : Arns, name : {""}]
    \cup [type : {"ExecutionStarted"}, back : {1}, resource : {""},
          name : {""}]

\* The window is delivered most recent first (reverseOrder=True): the event
\* at position i of n has id n - i + 1.
EventId(n, i) == n - i + 1

History(shapes) ==
    [i \in 1..Len(shapes) |->
        [id |-> EventId(Len(shapes), i),
         type |-> shapes[i].type,
         previousEventId |-> EventId(Len(shapes), i) - shapes[i].back,
         resource |-> shapes[i].resource,
         name |-> shapes[i].name]]

Histories ==
    UNION {{History(sh) : sh \in [1..n -> EventShapes]} : n \in 0..MaxEvents}

\* Lines 35-39: eventsById = {}; for event in events:
\*   eventsById['event']['id'] = event
\* The subscript eventsById['event'] of the empty dict is evaluated first.
buildEventsById(events) ==
    IF Len(events) > 0 THEN Raise("KeyError", <<"event">>)
    ELSE Ret(<<>>)

\* Lines 44-48: the test of the scheduled branch.
scheduledMatch(step, arn) ==
    /\ arn # None_ /\ arn # ""
    /\ \/ step.type = "LambdaFunctionScheduled" /\ step.resource = arn
       \/ step.type = "ActivityScheduled" /\ step.resource = arn

\* Lines 41-51: the forward pass from position i, eventsById a function from
\* ids to events.
RECURSIVE scanEvents(_, _, _, _)
scanEvents(events, eventsById, arn, i) ==
    IF i > Len(events)
    THEN IF arn = None_
         THEN Raise("TypeError", <<"cannot concatenate 'str' and 'NoneType'">>)
         ELSE Raise("LookupError", <<"No task found for ", arn>>)
    ELSE LET step == events[i] IN
         IF scheduledMatch(step, arn)
         THEN IF step.previousEventId \notin DOMAIN eventsById
              THEN Raise("KeyError", <<ToString(step.previousEventId)>>)
              ELSE LET prev == eventsById[step.previousEventId] IN
                   IF prev.type # "TaskStateEntered"
                   THEN Raise("KeyError", <<"stateEnteredEventDetails">>)
                   ELSE Ret(prev.name)
         ELSE IF step.type = "TaskStateEntered" THEN Ret(step.name)
         ELSE scanEvents(events, eventsById, arn, i + 1)

getTaskNameFromExecutionHistory(events, arn) ==
    LET table == buildEventsById(events) IN
    IF Raised(table) THEN table
    ELSE scanEvents(events, table.val, arn, 1)

-----------------------------------------------------------------------------
(* Python dicts: functions from keys to values                             *)

EmptyDict == [k \in {} |-> NoneV]
Has(d, k) == k \in DOMAIN d
Del(d, k) == [x \in DOMAIN d \ {k} |-> d[x]]
Put(d, k, v) == [x \in DOMAIN d \cup {k} |-> IF x = k THEN v ELSE d[x]]

\* The dicts over a subset of the keys of `fields`, a function from each key
\* to the set of values it may hold.
PartialDicts(fields) ==
    UNION {{d \in [K -> UNION {fields[k] : k \in DOMAIN fields}] :
               \A k \in K : d[k] \in fields[k]} : K \in SUBSET DOMAIN fields}

-----------------------------------------------------------------------------
(* Task configuration: __getConfig, __loadLocalConfig,                     *)
(* __getSfnExecutionArnByName, __getCurrentSfnTask,                        *)
(* __loadStepFunctionConfig, __loadConfig                                  *)

\* Line 18: (':').join(a, b) passes two arguments to str.join.
getSfnExecutionArnByName(stateMachineArn, executionName) ==
    Raise("TypeError", <<"join() takes exactly one argument (2 given)">>)

\* Lines 67-74.  `history` is what get_execution_history would deliver.
\* The callee __getSfnExecutionArnByName is a bare name; so are `client`
\* and __getTaskNameFromExecutionHistory; and the method ends without a
\* return statement, so a call that got through would return None.
getCurrentSfnTask(stateMachineArn, executionName, arn, history) ==
    Global("_message__getSfnExecutionArnByName",
        LET executionArn ==
                getSfnExecutionArnByName(stateMachineArn, executionName) IN
        IF Raised(executionArn) THEN executionArn
        ELSE Global("client",
                 Global("_message__getTaskNameFromExecutionHistory",
                     LET found ==
                             getTaskNameFromExecutionHistory(history, arn) IN
                     IF Raised(found) THEN found ELSE Ret(None_))))

\* Lines 107-110.
getConfig(event, taskName) ==
    IF Has(event, "workflow_config") /\ Has(event["workflow_config"], taskName)
    THEN Ret(event["workflow_config"][taskName])
    ELSE Ret(EmptyDict)

\* Line 118: the callee is evaluated before its arguments.
loadLocalConfig(event) ==
    Global("_message__getConfig",
        IF ~Has(event, "cumulus_meta")
        THEN Raise("KeyError", <<"cumulus_meta">>)
        ELSE IF ~Has(event["cumulus_meta"], "task")
        THEN Raise("KeyError", <<"task">>)
        ELSE getConfig(event, event["cumulus_meta"]["task"]))

\* Lines 128-131.
loadStepFunctionConfig(event, context, history) ==
    IF ~Has(event, "cumulus_meta") THEN Raise("KeyError", <<"cumulus_meta">>)
    ELSE IF ~Has(context, "invokedFunctionArn") /\ ~Has(context, "activityArn")
    THEN Raise("KeyError", <<"activityArn">>)
    ELSE LET meta == event["cumulus_meta"]
             arn == IF Has(context, "invokedFunctionArn")
                    THEN context["invokedFunctionArn"]
                    ELSE context["activityArn"] IN
         Global("_message__getCurrentSfnTask",
             IF ~Has(meta, "state_machine")
             THEN Raise("KeyError", <<"state_machine">>)
             ELSE IF ~Has(meta, "execution_name")
             THEN Raise("KeyError", <<"execution_name">>)
             ELSE LET taskName ==
                          getCurrentSfnTask(meta["state_machine"],
                              meta["execution_name"], arn, history) IN
                  IF Raised(taskName) THEN taskName
                  ELSE IF taskName.val # None_
                  THEN Global("_message__getConfig",
                           getConfig(event, taskName.val))
                  ELSE Ret(NoneV))

\* Line 147.
unknownSourceRaisesException(source) ==
    Raise("Exception", <<"Unknown event source: ", source>>)

unknownSource(source) ==
    Raise("LookupError", <<"Unknown event source: ", source>>)

\* Lines 140-147.
loadConfig(event, context, history) ==
    IF ~Has(event, "cumulus_meta") THEN Raise("KeyError", <<"cumulus_meta">>)
    ELSE IF ~Has(event["cumulus_meta"], "message_source")
    THEN Raise("KeyError", <<"message_source">>)
    ELSE LET source == event["cumulus_meta"]["message_source"] IN
         IF source = None_
         THEN Raise("LookupError", <<"cumulus_meta requires a message_source">>)
         ELSE IF source = "local"
         THEN Global("_message__loadLocalConfig", loadLocalConfig(event))
         ELSE IF source = "sfn"
         THEN Global("_message__loadStepFunctionConfig",
                  loadStepFunctionConfig(event, context, history))
         ELSE unknownSource(source)

\* Inputs.  message_source is a string tag; JSON null is None_.
MessageSources == {"local", "sfn", "cloudwatch", "", None_}

Metas ==
    PartialDicts([message_source |-> MessageSources, task |-> {"Validate"},
                  state_machine |-> {"arn:sm"}, execution_name |-> {"run1"}])

\* A task's Config, as far as the locator is concerned: opaque.
OpaqueConfigs == {EmptyDict, [bucket |-> "b1"]}

WorkflowConfigs == PartialDicts([Validate |-> OpaqueConfigs,
                                 Discover |-> OpaqueConfigs])

LocateEvents ==
    {[cumulus_meta |-> m] : m \in Metas}
    \cup {[cumulus_meta |-> m, workflow_config |-> w] :
             m \in Metas, w \in WorkflowConfigs}
    \cup {EmptyDict}

Contexts == PartialDicts([invokedFunctionArn |-> {"X"}, activityArn |-> {"Y"}])

\* The windows the history collaborator may deliver to the locator: none,
\* or the task entered and its resource scheduled.
LocateHistories ==
    {<<>>,
     History(<<[type |-> "LambdaFunctionScheduled", back |-> 1,
                resource |-> "X", name |-> ""],
               [type |-> "TaskStateEntered", back |-> 1, resource |-> "",
                name |-> "Validate"]>>)}

-----------------------------------------------------------------------------
(* JSON values below the root of a message, and the path queries of        *)
(* jsonpath_ng that message.py uses (parse(...).find(...))                 *)

MaxItems == 2

Str(chars) == [t |-> "str", s |-> chars]
Num(n) == [t |-> "num", n |-> n]
List(items) == [t |-> "list", l |-> items]
Dict(d) == [t |-> "dict", d |-> d]

Letters ==
    {"a", "b", "c", "d", "e", "l", "m", "o", "p", "q", "s", "t", "u", "x",
     "y", "_"}

\* The longest run of letters of chars from position i: its last position.
RECURSIVE nameEnd(_, _)
nameEnd(chars, i) ==
    IF i + 1 <= Len(chars) /\ chars[i + 1] \in Letters
    THEN nameEnd(chars, i + 1) ELSE i

\* The key a run of letters spells.
RECURSIVE keyOf(_)
keyOf(chars) ==
    IF chars = <<>> THEN "" ELSE Head(chars) \o keyOf(Tail(chars))

\* parse(text): the steps after the root "$", each ".name" or "[*]"; any
\* other text is a syntax error of the path language.
ParseError == [ok |-> FALSE, steps |-> <<>>]
RECURSIVE parseSteps(_, _, _)
parseSteps(chars, i, acc) ==
    IF i > Len(chars) THEN [ok |-> TRUE, steps |-> acc]
    ELSE IF chars[i] = "." /\ i + 1 <= Len(chars) /\ chars[i + 1] \in Letters
    THEN LET e == nameEnd(chars, i + 1) IN
         parseSteps(chars, e + 1,
             Append(acc, [k |-> "field",
                          name |-> keyOf(SubSeq(chars, i + 1, e))]))
    ELSE IF i + 2 <= Len(chars) /\ chars[i] = "[" /\ chars[i + 1] = "*"
            /\ chars[i + 2] = "]"
    THEN parseSteps(chars, i + 3, Append(acc, [k |-> "all", name |-> ""]))
    ELSE ParseError

parse(chars) ==
    IF Len(chars) >= 1 /\ chars[1] = "$" THEN parseSteps(chars, 2, <<>>)
    ELSE ParseError

\* One step applied to one value: the values it selects, in order.
stepValue(step, v) ==
    IF step.k = "field"
    THEN IF v.t = "dict" /\ Has(v.d, step.name) THEN <<v.d[step.name]>>
         ELSE <<>>
    ELSE IF v.t = "list" THEN v.l
    ELSE IF v.t \in {"dict", "num", "str"} THEN <<v>>
    ELSE <<>>

RECURSIVE stepAll(_, _)
stepAll(step, values) ==
    IF values = <<>> THEN <<>>
    ELSE stepValue(step, Head(values)) \o stepAll(step, Tail(values))

\* find: every match of the steps from position i, in document order.
RECURSIVE findFrom(_, _, _)
findFrom(steps, i, values) ==
    IF i > Len(steps) THEN values
    ELSE findFrom(steps, i + 1, stepAll(steps[i], values))

find(steps, event) == findFrom(steps, 1, <<Dict(event)>>)

-----------------------------------------------------------------------------
(* __resolvePathStr                                                        *)

\* Line 170: '^{{(.*)}}$'
matchesValueRegex(str) ==
    /\ Len(str) >= 4
    /\ str[1] = "{" /\ str[2] = "{"
    /\ str[Len(str) - 1] = "}" /\ str[Len(str)] = "}"

\* Line 171: '^{\[(.*)\]}$'
matchesArrayRegex(str) ==
    /\ Len(str) >= 4
    /\ str[1] = "{" /\ str[2] = "["
    /\ str[Len(str) - 1] = "]" /\ str[Len(str)] = "}"

\* str[2:(len(str)-2)]
inner(str) == SubSeq(str, 3, Len(str) - 2)

\* Line 172: '{([^}]+)}' matches at i when the first "}" after i is at least
\* two positions on; [^}]+ cannot cross a "}".
closingAfter(str, i) ==
    IF \E k \in (i + 1)..Len(str) : str[k] = "}"
    THEN CHOOSE k \in (i + 1)..Len(str) :
             str[k] = "}" /\ \A j \in (i + 1)..(k - 1) : str[j] # "}"
    ELSE 0

templateAt(str, i) == str[i] = "{" /\ closingAfter(str, i) >= i + 2

\* re.search: the leftmost match, as [from, to], or [0, 0].
templateSearch(str) ==
    IF \E i \in 1..Len(str) : templateAt(str, i)
    THEN LET i == CHOOSE i \in 1..Len(str) :
                      templateAt(str, i) /\ \A j \in 1..(i - 1) : ~templateAt(str, j)
         IN [from |-> i, to |-> closingAfter(str, i)]
    ELSE [from |-> 0, to |-> 0]

RECURSIVE lstrip(_, _)
lstrip(str, ch) ==
    IF str # <<>> /\ Head(str) = ch THEN lstrip(Tail(str), ch) ELSE str

RECURSIVE rstrip(_, _)
rstrip(str, ch) ==
    IF str # <<>> /\ str[Len(str)] = ch
    THEN rstrip(SubSeq(str, 1, Len(str) - 1), ch) ELSE str

startsWith(str, i, old) ==
    /\ i + Len(old) - 1 <= Len(str)
    /\ SubSeq(str, i, i + Len(old) - 1) = old

\* str.replace(old, new) from position i: every occurrence, left to right.
RECURSIVE replaceFrom(_, _, _, _)
replaceFrom(str, i, old, new) ==
    IF i > Len(str) THEN <<>>
    ELSE IF startsWith(str, i, old)
    THEN new \o replaceFrom(str, i + Len(old), old, new)
    ELSE <<str[i]>> \o replaceFrom(str, i + 1, old, new)

parseFailure == Raise("Exception", <<"Parse error">>)

\* Lines 182-187.
resolveEmbedded(event, str) ==
    LET m == templateSearch(str) IN
    IF m.from = 0 THEN Raise("LookupError", <<"Could not resolve path ", str>>)
    ELSE LET group0 == SubSeq(str, m.from, m.to)
             q == parse(rstrip(lstrip(group0, "{"), "}")) IN
         IF ~q.ok THEN parseFailure
         ELSE LET matchData == find(q.steps, event) IN
              IF Len(matchData) > 0
              THEN IF matchData[1].t = "str"
                   THEN Ret(Str(replaceFrom(str, 1, group0, matchData[1].s)))
                   ELSE Raise("TypeError", <<"expected a character buffer object">>)
              ELSE Raise("LookupError", <<"Could not resolve path ", str>>)

\* Lines 178-180, then on to line 182.
resolveArray(event, str) ==
    IF matchesArrayRegex(str)
    THEN LET q == parse(inner(str)) IN
         IF ~q.ok THEN parseFailure
         ELSE LET matchData == find(q.steps, event) IN
              IF Len(matchData) > 0 THEN Ret(List(matchData))
              ELSE resolveEmbedded(event, str)
    ELSE resolveEmbedded(event, str)

\* Lines 170-187.
resolvePathStr(event, str) ==
    IF matchesValueRegex(str)
    THEN LET q == parse(inner(str)) IN
         IF ~q.ok THEN parseFailure
         ELSE LET matchData == find(q.steps, event) IN
              IF Len(matchData) > 0 THEN Ret(matchData[1])
              ELSE resolveArray(event, str)
    ELSE resolveArray(event, str)

\* Inputs: the paths, and the templates built around them.
PayloadPath == <<"$", ".", "p", "a", "y", "l", "o", "a", "d">>

Paths ==
    {PayloadPath,
     PayloadPath \o <<".", "a">>,
     PayloadPath \o <<".", "a", "[", "*", "]">>,
     PayloadPath \o <<".", "b">>,
     PayloadPath \o <<".", "c">>,
     PayloadPath \o <<".", "c", "[", "*", "]">>,
     PayloadPath \o <<".", "a", "[", "*", "]", ".", "x">>,
     <<"p", ".", "a">>}

ValueTemplate(q) == <<"{", "{">> \o q \o <<"}", "}">>
ArrayTemplate(q) == <<"{", "[">> \o q \o <<"]", "}">>

Templates ==
    UNION {{ValueTemplate(q),
            ArrayTemplate(q),
            <<"x", "{">> \o q \o <<"}", "y">>,
            <<"{">> \o q \o <<"}", "{">> \o q \o <<"}">>,
            q} : q \in Paths}

\* The items a list under the payload may hold.
Items == {Num(1), Num(2), Dict([x |-> Num(7)])}

ItemLists == UNION {[1..n -> Items] : n \in 0..MaxItems}

\* Messages for resolution: the payload is what the paths address.
Payloads ==
    {Dict([a |-> List(l), b |-> Str(<<"b", "y">>)]) : l \in ItemLists}
    \cup {Dict([a |-> Str(<<"x">>)]), List(<<Num(1)>>),
          Str(ValueTemplate(PayloadPath \o <<".", "a">>))}

ResolveEvents == {[payload |-> p] : p \in Payloads} \cup {EmptyDict}

-----------------------------------------------------------------------------
(* __resolveConfigObject, __resolveConfigTemplates, __resolveInput,        *)
(* loadNestedEvent                                                         *)

\* Line 201: isinstance(config, StringType) evaluates the bare name
\* StringType first; message.py does not import the types module, so lines
\* 202-215 are never reached.
resolveConfigObject(event, config) ==
    Raise("NameError", <<"StringType">>)

\* Lines 227-229.  `__` is looked up as it is written (a name ending in two
\* underscores is not mangled).
resolveConfigTemplates(event, config) ==
    IF config = NoneV
    THEN Raise("AttributeError", <<"'NoneType' object has no attribute 'copy'">>)
    ELSE IF ~Has(config, "cumulus_message")
    THEN Raise("KeyError", <<"cumulus_message">>)
    ELSE Global("__", resolveConfigObject(event, Del(config, "cumulus_message")))

\* Lines 241-244.  event is a dict: event.payload is an attribute access.
resolveInput(event, config) ==
    IF Has(config, "cumulus_message") /\ Has(config["cumulus_message"], "input")
    THEN Global("_message__resolvePathStr",
             resolvePathStr(event, config["cumulus_message"]["input"]))
    ELSE Raise("AttributeError", <<"'dict' object has no attribute 'payload'">>)

\* Lines 253-260.
loadNestedEvent(event, context, history) ==
    Global("_message__loadConfig",
        LET config == loadConfig(event, context, history) IN
        IF Raised(config) THEN config
        ELSE Global("_message__resolveConfigTemplates",
            LET finalConfig == resolveConfigTemplates(event, config.val) IN
            IF Raised(finalConfig) THEN finalConfig
            ELSE Global("_message__resolveInput",
                LET finalPayload == resolveInput(event, config.val) IN
                IF Raised(finalPayload) THEN finalPayload
                ELSE IF ~Has(config.val, "cumulus_message")
                THEN Raise("KeyError", <<"cumulus_message">>)
                ELSE Ret([input |-> finalPayload.val,
                          config |-> finalConfig.val,
                          messageConfig |-> config.val["cumulus_message"]]))))

\* Inputs: the Configs of a task, with and without the reserved subsection.
OutputPairs ==
    [source : {ValueTemplate(<<"$", ".", "a">>), ValueTemplate(<<"$", ".", "b">>)},
     destination : {ValueTemplate(PayloadPath \o <<".", "o">>),
                    ValueTemplate(PayloadPath \o <<".", "q">>)}]

MaxOutputs == 2

OutputLists == UNION {[1..n -> OutputPairs] : n \in 0..MaxOutputs}

InputTemplates ==
    {ValueTemplate(PayloadPath \o <<".", "a">>),
     ArrayTemplate(PayloadPath \o <<".", "a", "[", "*", "]">>),
     ValueTemplate(PayloadPath \o <<".", "c">>)}

MessageConfigs ==
    {EmptyDict}
    \cup {[input |-> i] : i \in InputTemplates}
    \cup {[outputs |-> o] : o \in OutputLists}

\* The outputs of a messageConfig do not bear on the envelope: one list of
\* each length up to one stands for them.
BuildMessageConfigs ==
    {mc \in MessageConfigs : Has(mc, "outputs") => Len(mc["outputs"]) <= 1}

BuildConfigs ==
    {EmptyDict, [bucket |-> ValueTemplate(PayloadPath \o <<".", "b">>)]}
    \cup {[cumulus_message |-> mc] : mc \in BuildMessageConfigs}
    \cup {[cumulus_message |-> mc,
           bucket |-> ValueTemplate(PayloadPath \o <<".", "b">>)] :
             mc \in BuildMessageConfigs}

\* Messages for loadNestedEvent: local source, the task configured or not.
NestedEvents ==
    {[cumulus_meta |-> [message_source |-> "local", task |-> "Validate"],
      workflow_config |-> [Validate |-> c],
      payload |-> p] : c \in BuildConfigs, p \in Payloads}
    \cup {[cumulus_meta |-> [message_source |-> "local", task |-> "Validate"],
           payload |-> p] : p \in Payloads}

-----------------------------------------------------------------------------
(* loadRemoteEvent                                                         *)

\* Lines 90-95.  `fetched` is what the object store's get() delivers: the
\* stored body, or the store's failure.  The body is returned as read, not
\* parsed.
loadRemoteEvent(event, fetched) ==
    IF Has(event, "replace")
    THEN IF Raised(fetched) THEN fetched ELSE Ret(fetched.val)
    ELSE Ret(event)

-----------------------------------------------------------------------------
(* __assignOutputs, storeRemoteResponse, createNextEvent                   *)

\* Lines 275-288.  result is a dict: the assignment result.payload = {} is
\* an attribute assignment, so the loop of lines 279-284 is never reached.
assignOutputs(nestedResponse, event, messageConfig) ==
    IF messageConfig # NoneV /\ Has(messageConfig, "outputs")
    THEN Raise("AttributeError", <<"'dict' object has no attribute 'payload'">>)
    ELSE Ret(Put(event, "payload", nestedResponse))

\* Line 297.
MAX_NON_S3_PAYLOAD_SIZE == 10000

\* A str of n characters 'x'.
Xs(n) == [t |-> "xs", n |-> n]

RECURSIVE digits(_)
digits(n) == IF n < 10 THEN 1 ELSE 1 + digits(n \div 10)

\* len(json.dumps(v)) with the default separators ', ' and ': ', for text
\* that needs no escape.
RECURSIVE jsonLen(_)
RECURSIVE jsonLenItems(_)
RECURSIVE jsonLenEntries(_, _)
jsonLen(v) ==
    CASE v.t = "none" -> 4
      [] v.t = "num" -> digits(v.n)
      [] v.t = "str" -> Len(v.s) + 2
      [] v.t = "xs" -> v.n + 2
      [] v.t = "list" ->
            2 + jsonLenItems(v.l) + 2 * (IF Len(v.l) > 0 THEN Len(v.l) - 1 ELSE 0)
      [] v.t = "dict" ->
            2 + jsonLenEntries(v.d, DOMAIN v.d)
              + 2 * (IF DOMAIN v.d # {} THEN Cardinality(DOMAIN v.d) - 1 ELSE 0)

jsonLenItems(items) ==
    IF items = <<>> THEN 0 ELSE jsonLen(Head(items)) + jsonLenItems(Tail(items))

jsonLenEntries(d, keys) ==
    IF keys = {} THEN 0
    ELSE LET k == CHOOSE x \in keys : TRUE IN
         Len(k) + 2 + 2 + jsonLen(d[k]) + jsonLenEntries(d, keys \ {k})

\* Line 299.
roughDataSize(event) == IF event = NoneV THEN 0 ELSE jsonLen(Dict(event))

\* Lines 297-318: the outcome, and the objects put to the store on the way.
\* Building s3Params evaluates the bare name timedelta, which message.py does
\* not import; dict.update() returns None, so a call that got through would
\* fail at put_object(**None).
storeRemoteResponseRun(event) ==
    IF roughDataSize(event) < MAX_NON_S3_PAYLOAD_SIZE
    THEN [out |-> Ret(event), put |-> {}]
    ELSE IF ~Has(event, "ingest_meta")
    THEN [out |-> Raise("KeyError", <<"ingest_meta">>), put |-> {}]
    ELSE IF event["ingest_meta"].t # "dict"
    THEN [out |-> Raise("TypeError", <<"indices must be integers">>), put |-> {}]
    ELSE IF ~Has(event["ingest_meta"].d, "message_bucket")
    THEN [out |-> Raise("KeyError", <<"message_bucket">>), put |-> {}]
    ELSE [out |-> Global("timedelta",
                      Raise("TypeError",
                          <<"put_object() argument after ** must be a mapping">>)),
          put |-> {}]

storeRemoteResponse(event) == storeRemoteResponseRun(event).out

\* Lines 329-332.  `storeRemoteResponse` is a bare name too.
createNextEvent(nestedResponse, event, messageConfig) ==
    Global("_message__assignOutputs",
        LET result == assignOutputs(nestedResponse, event, messageConfig) IN
        IF Raised(result) THEN result
        ELSE LET marked ==
                     Put(result.val, "exception", Str(<<"N", "o", "n", "e">>)) IN
             IF ~Has(marked, "replace") THEN Raise("KeyError", <<"replace">>)
             ELSE Global("storeRemoteResponse",
                      storeRemoteResponse(Del(marked, "replace"))))

\* Inputs.
TaskResults == {Dict([a |-> Num(1), b |-> Num(2)]), Dict([a |-> Num(1)])}

CumulusMetas == {Dict([task |-> Str(<<"t">>)]), Dict(EmptyDict)}

OutputEvents ==
    {[cumulus_meta |-> m, payload |-> p] :
        m \in CumulusMetas, p \in {Dict(EmptyDict), Dict([o |-> Num(9)])}}
    \cup {[cumulus_meta |-> m, payload |-> Dict(EmptyDict),
           replace |-> Dict([Bucket |-> Str(<<"b">>), Key |-> Str(<<"k">>)])] :
             m \in CumulusMetas}

OutputMessageConfigs ==
    {NoneV, EmptyDict} \cup {[outputs |-> o] : o \in OutputLists}

\* How far on either side of the threshold the serialized sizes range.
SizeSlack == 2

\* The message of one shape whose serialized form has `size` characters, when
\* padding can reach it.
StoreShapes ==
    {[cumulus_meta |-> m, payload |-> Xs(0)] : m \in CumulusMetas}
    \cup {[cumulus_meta |-> m,
           ingest_meta |-> Dict([message_bucket |-> Str(<<"b">>)]),
           payload |-> Xs(0)] : m \in CumulusMetas}
    \cup {[ingest_meta |-> Dict([message_bucket |-> Str(<<"b">>)]),
           payload |-> Xs(0)],
          [cumulus_meta |-> Dict(EmptyDict), ingest_meta |-> Dict(EmptyDict),
           payload |-> Xs(0)]}

Padded(shape, size) ==
    [shape EXCEPT !["payload"] = Xs(size - roughDataSize(shape))]

StoreSizes ==
    (MAX_NON_S3_PAYLOAD_SIZE - SizeSlack)..(MAX_NON_S3_PAYLOAD_SIZE + SizeSlack)

StoreEvents ==
    StoreShapes
    \cup {Padded(sh, n) : sh \in StoreShapes, n \in StoreSizes}

RemoteEvents ==
    {[cumulus_meta |-> m, payload |-> Dict(EmptyDict)] : m \in CumulusMetas}
    \cup {[cumulus_meta |-> m,
           replace |-> Dict([Bucket |-> Str(<<"b">>), Key |-> Str(<<"k">>)])] :
             m \in CumulusMetas}

\* What the store's get() may deliver: a body, or its failure.
Fetches ==
    {Ret([t |-> "bytes", of |-> [cumulus_meta |-> m, payload |-> Dict(EmptyDict)]]) :
        m \in CumulusMetas}
    \cup {Raise("ClientError", <<"NoSuchKey">>)}

-----------------------------------------------------------------------------
(* The process boundary                                                    *)

Operations == {"loadRemoteEvent", "loadNestedEvent", "createNextEvent"}

\* sys.argv[1]: one of the operations, another word, or no argument at all.
FunctionNames == Operations \cup {"other", None_}

\* The text on standard input: not JSON, or a JSON object with some of the
\* four keys.
NotJson == [t |-> "notjson"]
AllInputs ==
    {Dict(d) : d \in PartialDicts([event |-> {"E"}, context |-> {"C"},
                                   handler_response |-> {"H"},
                                   message_config |-> {"M"}])}

\* What an operation of the adapter src/__main__.py imports may do: raise a
\* LookupError or another exception, or return nothing, an empty message or
\* a message.
TransformerOutcomes ==
    {Raise("LookupError", <<"Could not resolve path">>),
     Raise("KeyError", <<"cumulus_meta">>),
     Raise("Exception", <<"collaborator failed">>),
     Ret(NoneV),
     Ret(Dict(EmptyDict)),
     Ret(Dict([cumulus_meta |-> Dict(EmptyDict), payload |-> Dict(EmptyDict)])),
     Ret(Dict([input |-> NoneV, config |-> Dict(EmptyDict),
               messageConfig |-> Dict(EmptyDict)]))}

\* len(result) of a result that has one.
pyLen(v) ==
    CASE v.t = "dict" -> Cardinality(DOMAIN v.d)
      [] v.t = "list" -> Len(v.l)
      [] v.t = "str" -> Len(v.s)

emitsWhenNotNone(result) == result # NoneV

\* src/__main__.py line 28 (and message.py line 351).
emits(result) == result # NoneV /\ pyLen(result) > 0

\* src/__main__.py lines 15-26: the arguments each branch reads from the
\* input before it calls the operation; a missing one is a KeyError.
missingArgument(functionName, allInput) ==
    IF functionName = "loadNestedEvent" /\ ~Has(allInput.d, "context")
    THEN <<"context">>
    ELSE IF functionName = "createNextEvent"
            /\ ~Has(allInput.d, "handler_response")
    THEN <<"handler_response">>
    ELSE <<>>

\* message.py lines 335-360, for sys.argv = <<script>> \o args.  The branch
\* of each operation reads the bare name argv (only sys is imported), a
\* NameError that the bare except catches; its handler calls sys.stderr,
\* a file, and the TypeError of that call leaves the process with a
\* traceback.  No branch taken: result stays None and the script exits 1.
messageMain(args) ==
    IF Len(args) < 1
    THEN [res |-> Raise("ValueError", <<"need more than 1 value to unpack">>),
          status |-> 1, stdout |-> <<>>, stderr |-> <<"Traceback: ValueError">>]
    ELSE IF args[1] \in Operations
    THEN [res |-> Global("argv", Raise("NameError", <<args[1]>>)),
          status |-> 1, stdout |-> <<>>, stderr |-> <<"Traceback: TypeError">>]
    ELSE [res |-> Ret(NoneV), status |-> 1, stdout |-> <<>>, stderr |-> <<>>]

-----------------------------------------------------------------------------
(* Actions                                                                 *)

Idle ==
    /\ stdout = <<>> /\ stderr = <<>> /\ exitCode = -1 /\ status = -1 /\ s3 = {}

Init ==
    /\ pc = "init"
    /\ call = [fn |-> "none"]
    /\ res = [kind |-> "none"]
    /\ Idle

Apply(c, o) ==
    /\ pc' = "done"
    /\ call' = c
    /\ res' = o
    /\ UNCHANGED <<stdout, stderr, exitCode, status, s3>>

CallGetTaskName ==
    /\ pc = "init"
    /\ \E events \in Histories, arn \in {"X", None_} :
        Apply([fn |-> "getTaskNameFromExecutionHistory", events |-> events,
               arn |-> arn],
              getTaskNameFromExecutionHistory(events, arn))

CallGetConfig ==
    /\ pc = "init"
    /\ \E event \in LocateEvents, taskName \in TaskNames :
        Apply([fn |-> "getConfig", event |-> event, taskName |-> taskName],
              getConfig(event, taskName))

CallLoadConfig ==
    /\ pc = "init"
    /\ \E event \in LocateEvents, context \in Contexts,
          history \in LocateHistories :
        Apply([fn |-> "loadConfig", event |-> event, context |-> context,
               history |-> history],
              loadConfig(event, context, history))

CallResolvePathStr ==
    /\ pc = "init"
    /\ \E event \in ResolveEvents, str \in Templates :
        Apply([fn |-> "resolvePathStr", event |-> event, str |-> str],
              resolvePathStr(event, str))

CallResolveConfigTemplates ==
    /\ pc = "init"
    /\ \E event \in ResolveEvents, config \in BuildConfigs :
        Apply([fn |-> "resolveConfigTemplates", event |-> event,
               config |-> config],
              resolveConfigTemplates(event, config))

CallResolveInput ==
    /\ pc = "init"
    /\ \E event \in ResolveEvents, config \in BuildConfigs :
        Apply([fn |-> "resolveInput", event |-> event, config |-> config],
              resolveInput(event, config))

CallLoadNestedEvent ==
    /\ pc = "init"
    /\ \E event \in NestedEvents, context \in Contexts :
        Apply([fn |-> "loadNestedEvent", event |-> event,
               context |-> context],
              loadNestedEvent(event, context, <<>>))

CallLoadRemoteEvent ==
    /\ pc = "init"
    /\ \E event \in RemoteEvents, fetched \in Fetches :
        Apply([fn |-> "loadRemoteEvent", event |-> event, fetched |-> fetched],
              loadRemoteEvent(event, fetched))

CallAssignOutputs ==
    /\ pc = "init"
    /\ \E nestedResponse \in TaskResults, event \in OutputEvents,
          messageConfig \in OutputMessageConfigs :
        Apply([fn |-> "assignOutputs", nestedResponse |-> nestedResponse,
               event |-> event, messageConfig |-> messageConfig],
              assignOutputs(nestedResponse, event, messageConfig))

CallStoreRemoteResponse ==
    /\ pc = "init"
    /\ \E event \in StoreEvents \cup {NoneV} :
        /\ pc' = "done"
        /\ call' = [fn |-> "storeRemoteResponse", event |-> event]
        /\ res' = storeRemoteResponse(event)
        /\ s3' = s3 \cup storeRemoteResponseRun(event).put
        /\ UNCHANGED <<stdout, stderr, exitCode, status>>

CallCreateNextEvent ==
    /\ pc = "init"
    /\ \E nestedResponse \in TaskResults, event \in OutputEvents,
          messageConfig \in OutputMessageConfigs :
        Apply([fn |-> "createNextEvent", nestedResponse |-> nestedResponse,
               event |-> event, messageConfig |-> messageConfig],
              createNextEvent(nestedResponse, event, messageConfig))

\* src/__main__.py lines 9-13: outside the try, so a failure here ends the
\* process with a traceback and status 1.
MainStart ==
    /\ pc = "init"
    /\ \E functionName \in FunctionNames, input \in AllInputs \cup {NotJson} :
        /\ call' = [fn |-> "main", functionName |-> functionName,
                    allInput |-> input]
        /\ IF functionName = None_
           THEN /\ pc' = "exited" /\ status' = 1 /\ exitCode' = exitCode
                /\ stderr' = Append(stderr, "Traceback: IndexError")
           ELSE IF input = NotJson
           THEN /\ pc' = "exited" /\ status' = 1 /\ exitCode' = 1
                /\ stderr' = Append(stderr, "Traceback: ValueError")
           ELSE IF ~Has(input.d, "event")
           THEN /\ pc' = "exited" /\ status' = 1 /\ exitCode' = 1
                /\ stderr' = Append(stderr, "Traceback: KeyError")
           ELSE /\ pc' = "try" /\ status' = status /\ exitCode' = 1
                /\ stderr' = stderr
        /\ UNCHANGED <<res, stdout, s3>>

\* Lines 15-26: the branch of the operation named, and the operation.  No
\* branch taken leaves `result` unbound for line 28.
MainCall ==
    /\ pc = "try"
    /\ \/ /\ call.functionName \in Operations
          /\ missingArgument(call.functionName, call.allInput) = <<>>
          /\ \E o \in TransformerOutcomes : res' = o
       \/ /\ call.functionName \in Operations
          /\ missingArgument(call.functionName, call.allInput) # <<>>
          /\ res' = Raise("KeyError",
                         missingArgument(call.functionName, call.allInput))
       \/ /\ call.functionName \notin Operations
          /\ res' = Raise("NameError", <<"result">>)
    /\ pc' = IF Returned(res') THEN "check" ELSE "except"
    /\ UNCHANGED <<call, stdout, stderr, exitCode, status, s3>>

\* Lines 28-31.
MainCheck ==
    /\ pc = "check"
    /\ IF emits(res.val)
       THEN /\ stdout' = Append(stdout, [json |-> res.val])
            /\ exitCode' = 0
       ELSE UNCHANGED <<stdout, exitCode>>
    /\ pc' = "exit"
    /\ UNCHANGED <<call, res, stderr, status, s3>>

\* Lines 32-35.
MainExcept ==
    /\ pc = "except"
    /\ stderr' = Append(stderr, IF IsLookupError(res) THEN "Lookup error: "
                                ELSE "Unexpected error:")
    /\ pc' = "exit"
    /\ UNCHANGED <<call, res, stdout, exitCode, status, s3>>

\* Line 36.
MainExit ==
    /\ pc = "exit"
    /\ status' = exitCode
    /\ pc' = "exited"
    /\ UNCHANGED <<call, res, stdout, stderr, exitCode, s3>>

\* The __main__ block of message.py, run as a script.
MessageMain ==
    /\ pc = "init"
    /\ \E args \in {<<>>} \cup {<<f>> : f \in Operations \cup {"other"}} :
        LET run == messageMain(args) IN
        /\ call' = [fn |-> "messageMain", args |-> args]
        /\ res' = run.res
        /\ status' = run.status
        /\ stdout' = stdout \o run.stdout
        /\ stderr' = stderr \o run.stderr
        /\ pc' = "exited"
        /\ UNCHANGED <<exitCode, s3>>

Next ==
    \/ CallGetTaskName
    \/ CallGetConfig
    \/ CallLoadConfig
    \/ CallResolvePathStr
    \/ CallResolveConfigTemplates
    \/ CallResolveInput
    \/ CallLoadNestedEvent
    \/ CallLoadRemoteEvent
    \/ CallAssignOutputs
    \/ CallStoreRemoteResponse
    \/ CallCreateNextEvent
    \/ MainStart
    \/ MainCall
    \/ MainCheck
    \/ MainExcept
    \/ MainExit
    \/ MessageMain

Spec == Init /\ [][Next]_vars

-----------------------------------------------------------------------------
(* The claims                                                              *)

Applied(fn) == pc = "done" /\ call.fn = fn

Range(seq) == {seq[i] : i \in 1..Len(seq)}

IsScheduledFor(e, arn) ==
    e.type \in {"LambdaFunctionScheduled", "ActivityScheduled"} /\ e.resource = arn

HasScheduledFor(events, arn) == \E i \in 1..Len(events) : IsScheduledFor(events[i], arn)

FirstScheduledFor(events, arn) ==
    CHOOSE i \in 1..Len(events) :
        IsScheduledFor(events[i], arn)
        /\ \A j \in 1..(i - 1) : ~IsScheduledFor(events[j], arn)

\* The names of the TaskStateEntered event that the first scheduled event for
\* arn refers to (none when there is no such event in the window).
EnteredFor(events, arn) ==
    IF HasScheduledFor(events, arn)
    THEN {e.name : e \in {x \in Range(events) :
                    /\ x.id = events[FirstScheduledFor(events, arn)].previousEventId
                    /\ x.type = "TaskStateEntered"}}
    ELSE {}

\* C1: with an invocation ARN, whenever the window holds a scheduled event
\* whose resource is the ARN, findCurrentTask returns the name of the
\* TaskStateEntered event that scheduled event's previousEventId refers to,
\* whatever TaskStateEntered events come earlier in the list.
C1_ArnSelectsEnteredTask ==
    (/\ Applied("getTaskNameFromExecutionHistory")
     /\ call.arn \in Arns
     /\ EnteredFor(call.events, call.arn) # {})
    => \E name \in EnteredFor(call.events, call.arn) : res = Ret(name)

NamesArn(o, arn) == \E k \in 1..Len(o.msg) : o.msg[k] = arn

\* C2: findCurrentTask fails with a LookupError naming the ARN, and returns
\* nothing, whenever the window is exhausted with no match: with an ARN,
\* when no scheduled event has that resource; with no ARN, when the window
\* has no TaskStateEntered event.
C2_ExhaustedWindowNotFound ==
    /\ (/\ Applied("getTaskNameFromExecutionHistory")
        /\ call.arn \in Arns
        /\ ~HasScheduledFor(call.events, call.arn))
       => (IsLookupError(res) /\ NamesArn(res, call.arn))
    /\ (/\ Applied("getTaskNameFromExecutionHistory")
        /\ call.arn = None_
        /\ \A e \in Range(call.events) : e.type # "TaskStateEntered")
       => IsLookupError(res)

\* The Config that the lookup of taskName in workflow_config yields.
ConfigOf(event, taskName) ==
    IF Has(event, "workflow_config") /\ Has(event["workflow_config"], taskName)
    THEN event["workflow_config"][taskName]
    ELSE EmptyDict

SourceOf(event) ==
    IF Has(event, "cumulus_meta") /\ Has(event["cumulus_meta"], "message_source")
    THEN event["cumulus_meta"]["message_source"]
    ELSE "<absent>"

ContextArn(context) ==
    IF Has(context, "invokedFunctionArn") THEN context["invokedFunctionArn"]
    ELSE IF Has(context, "activityArn") THEN context["activityArn"]
    ELSE None_

\* The message and context carry what discovery needs.
Discoverable(event, context) ==
    /\ Has(event["cumulus_meta"], "state_machine")
    /\ Has(event["cumulus_meta"], "execution_name")
    /\ ContextArn(context) # None_

\* C3: locate returns workflow_config[taskName] when that entry exists and
\* an empty Config when it does not, taskName being cumulus_meta.task for
\* "local" and the task found in the history for "sfn"; it returns no config
\* at all only when discovery could not identify a task.
C3_LocateReturnsTaskConfig ==
    Applied("loadConfig") =>
        /\ (SourceOf(call.event) = "local" /\ Has(call.event["cumulus_meta"], "task"))
           => res = Ret(ConfigOf(call.event, call.event["cumulus_meta"]["task"]))
        /\ (/\ SourceOf(call.event) = "sfn"
            /\ Discoverable(call.event, call.context)
            /\ EnteredFor(call.history, ContextArn(call.context)) # {})
           => \E name \in EnteredFor(call.history, ContextArn(call.context)) :
                  res = Ret(ConfigOf(call.event, name))
        /\ (Returned(res) /\ res.val = NoneV)
           => (/\ SourceOf(call.event) = "sfn"
               /\ EnteredFor(call.history, ContextArn(call.context)) = {})

\* Every template of Config c resolves against the message.
Resolvable(event, c) ==
    /\ Has(c, "bucket") => Returned(resolvePathStr(event, c["bucket"]))
    /\ (Has(c, "cumulus_message") /\ Has(c["cumulus_message"], "input"))
       => Returned(resolvePathStr(event, c["cumulus_message"]["input"]))

LocatedConfig(event) == ConfigOf(event, event["cumulus_meta"]["task"])

\* C4: for every located Config C, with or without a cumulus_message
\* subsection, loadNestedEvent returns an envelope whose config has no key
\* cumulus_message and whose messageConfig is C's subsection, or empty when C
\* has none.
C4_EnvelopeStripsMessageConfig ==
    (Applied("loadNestedEvent") /\ Resolvable(call.event, LocatedConfig(call.event)))
    => /\ Returned(res)
       /\ ~Has(res.val.config, "cumulus_message")
       /\ res.val.messageConfig =
              (IF Has(LocatedConfig(call.event), "cumulus_message")
               THEN LocatedConfig(call.event)["cumulus_message"]
               ELSE EmptyDict)

\* C5: a message that serializes to exactly 10,000 characters is returned
\* unchanged and nothing is put to the store; one of 10,001 is stored and the
\* message returned has exactly the keys cumulus_meta and replace, with the
\* input's cumulus_meta.
C5_OffloadThreshold ==
    Applied("storeRemoteResponse") =>
        /\ (call.event # NoneV /\ roughDataSize(call.event) = 10000)
           => (res = Ret(call.event) /\ s3 = {})
        /\ (/\ call.event # NoneV
            /\ roughDataSize(call.event) = 10001
            /\ Has(call.event, "cumulus_meta")
            /\ Has(call.event, "ingest_meta")
            /\ Has(call.event["ingest_meta"].d, "message_bucket"))
           => (/\ Returned(res)
               /\ DOMAIN res.val = {"cumulus_meta", "replace"}
               /\ res.val["cumulus_meta"] = call.event["cumulus_meta"]
               /\ s3 # {})

\* C6: on an exact {[<path>]} template, resolve returns the sequence of all
\* the values the path matches, in document order, and the empty sequence
\* (no error) when it matches nothing.
C6_ArrayTemplateAllMatches ==
    (/\ Applied("resolvePathStr")
     /\ matchesArrayRegex(call.str)
     /\ parse(inner(call.str)).ok)
    => res = Ret(List(find(parse(inner(call.str)).steps, call.event)))

HasOutputs(messageConfig) == messageConfig # NoneV /\ Has(messageConfig, "outputs")

\* The value output pair o takes from the task result.
SourceValue(nestedResponse, o) == resolvePathStr(nestedResponse.d, o.source)

\* C7: with outputs present the payload is cleared and the pairs are applied
\* in list order, so the message holds, at each destination, the value of the
\* last pair that writes it; with outputs absent the task result replaces
\* payload and no other key changes.
C7_OutputsInListOrder ==
    Applied("assignOutputs") =>
        /\ ~HasOutputs(call.messageConfig)
           => (/\ Returned(res)
               /\ DOMAIN res.val = DOMAIN call.event \cup {"payload"}
               /\ res.val["payload"] = call.nestedResponse
               /\ \A k \in DOMAIN call.event \ {"payload"} :
                      res.val[k] = call.event[k])
        /\ (/\ HasOutputs(call.messageConfig)
            /\ \A o \in Range(call.messageConfig["outputs"]) :
                   Returned(SourceValue(call.nestedResponse, o)))
           => (/\ Returned(res)
               /\ LET outs == call.messageConfig["outputs"] IN
                  \A i \in 1..Len(outs) :
                      (\A j \in (i + 1)..Len(outs) :
                           outs[j].destination # outs[i].destination)
                      => find(parse(inner(outs[i].destination)).steps, res.val)
                             = <<SourceValue(call.nestedResponse, outs[i]).val>>)

HasInputTemplate(config) ==
    Has(config, "cumulus_message") /\ Has(config["cumulus_message"], "input")

\* C8: the envelope's input is the resolution of cumulus_message.input
\* against the message when that field is present, and otherwise the
\* message's payload itself, unresolved.
C8_InputFromOneSource ==
    Applied("resolveInput") =>
        /\ (/\ HasInputTemplate(call.config)
            /\ Returned(resolvePathStr(call.event,
                            call.config["cumulus_message"]["input"])))
           => (/\ Returned(res)
               /\ res.val = resolvePathStr(call.event,
                                call.config["cumulus_message"]["input"]).val)
        /\ (~HasInputTemplate(call.config) /\ Has(call.event, "payload"))
           => (Returned(res) /\ res.val = call.event["payload"])

UnknownSource(event) == SourceOf(event) \notin {"local", "sfn"}

ProducedResult ==
    /\ call.fn = "main"
    /\ Returned(res)
    /\ res.val # NoneV
    /\ pyLen(res.val) > 0

\* C10: the process exits with status 0 exactly when the operation raised no
\* failure and produced a non-empty result, and then one JSON text, the
\* result, is on standard output; in every other case the status is 1 and
\* standard output is empty.
C10_ExitStatusAndOutput ==
    pc = "exited" =>
        /\ status = 0 <=> ProducedResult
        /\ status = 0 => stdout = <<[json |-> res.val]>>
        /\ status # 0 => (status = 1 /\ stdout = <<>>)

C10_Witness ==
    /\ pc = "exited"
    /\ call.fn = "main"
    /\ call.functionName = "createNextEvent"
    /\ status = 0
    /\ Len(stdout) = 1

====
